---- MODULE Spec2Model ----
(***************************************************************************)
(* Project Apollo: the turn-resolution engine of the survival game.        *)
(*                                                                         *)
(* The JavaScript game state object is the record gameState; every        *)
(* function of the engine is an operator from records to records, named   *)
(* as in the source.  Health is a JavaScript number: the Shields onEvent   *)
(* reaction produces fractions (totalDamage * 0.25, * 0.1), so health is   *)
(* kept in units of 1/Scale and H(n) is the health value n.                *)
(***************************************************************************)
EXTENDS Integers, Naturals, Sequences, FiniteSets, TLC

(* ------------------------------ bounds -------------------------------- *)
\* number of fractional absorptions followed exactly (Scale = 20^MaxAbsorb)
MaxAbsorb == 1
\* deterioration passes followed in one game (Navigation can hold turn still)
MaxCount == 10
\* games played after the first one (retry button)
MaxRetries == 1
\* events resolved in one game
MaxEvents == 1
\* requests followed after the end of a game
MaxAfterOver == 1

RECURSIVE Pow(_, _)
Pow(b, e) == IF e = 0 THEN 1 ELSE b * Pow(b, e - 1)
Scale == Pow(20, MaxAbsorb)
H(n) == n * Scale

\* `const x = v; ... x ...`: v is evaluated once and the result is bound
Let(v, F(_)) == CHOOSE r \in {F(x) : x \in {v}} : TRUE

Max(a, b) == IF a >= b THEN a ELSE b
Min(a, b) == IF a <= b THEN a ELSE b

(* --------------------------- configuration ---------------------------- *)
\* registryConfig.systems: the order in which selected systems are kept
registryOrder ==
  << "Life Support", "Power", "Navigation", "Shields", "Comms", "Protection" >>

\* the `type` field of each system module ("none": the module has no type)
sysType(name) ==
  CASE name = "Power" -> "normal"
    [] name = "Navigation" -> "normal"
    [] name = "Shields" -> "normal"
    [] name = "Protection" -> "active"
    [] OTHER -> "none"

\* `system.type || "normal"` as used by the dispatchers
typeOrNormal(name) == IF sysType(name) = "none" THEN "normal" ELSE sysType(name)

\* createGameState draws floor(random * 51) + 50 for a system of type normal
InitialHealths == {50, 100}

\* registryConfig.positiveEvents and negativeEvents (the modules of the tree)
registryPositiveEvents == << "supplyCache", "alienSignal", "motivated" >>
registryNegativeEvents == << "meteorShower", "powerSurge", "oxygenLeak" >>

VARIABLES
  config,                  \* the filtered configuration of this session
  gameState,               \* the game state object held by game.js
  lastDeteriorationCount,  \* module variable of deteriorateSystems.js
  hist,                    \* what the last handler did (history, not program state)
  handlers                 \* the click handlers that have not returned yet

vars == << config, gameState, lastDeteriorationCount, hist, handlers >>

RECURSIVE SelectSeq2(_, _)
SelectSeq2(s, S) ==
  IF s = << >> THEN << >>
  ELSE IF Head(s) \in S THEN << Head(s) >> \o SelectSeq2(Tail(s), S)
       ELSE SelectSeq2(Tail(s), S)

\* filterConfigBySelections: the selected systems in registry order
filterConfigBySelections(sel) == SelectSeq2(registryOrder, sel)

SysSeq == filterConfigBySelections(config.systems)
SysNames == config.systems

\* config.positiveEvents and config.negativeEvents after the same filter
positiveEvents == SelectSeq2(registryPositiveEvents, config.positiveEvents)
negativeEvents == SelectSeq2(registryNegativeEvents, config.negativeEvents)

(* ------------------------- damage modifier ledger --------------------- *)
\* a modifier factor is kept in percent; an effective factor is num/den

addDamageModifier(gs, systemName, modifier, type, turnsLeft, source) ==
  [gs EXCEPT !.damageModifiers =
     Append(@, [systemName |-> systemName, modifier |-> modifier,
                type |-> type, turnsLeft |-> turnsLeft, source |-> source])]

\* a tick that keeps an entry until its counter is below zero
RECURSIVE TickSeq_late(_)
TickSeq_late(ms) ==
  IF ms = << >> THEN << >>
  ELSE LET m == Head(ms)
           d == [m EXCEPT !.turnsLeft = @ - 1]
       IN  IF d.turnsLeft >= 0 THEN << d >> \o TickSeq_late(Tail(ms))
           ELSE TickSeq_late(Tail(ms))

RECURSIVE TickSeq(_)
TickSeq(ms) ==
  IF ms = << >> THEN << >>
  ELSE LET m == Head(ms)
           d == [m EXCEPT !.turnsLeft = @ - 1]
       IN  IF d.turnsLeft > 0 THEN << d >> \o TickSeq(Tail(ms))
           ELSE TickSeq(Tail(ms))

updateDamageModifiers(gs) ==
  [gs EXCEPT !.damageModifiers = TickSeq(@)]

\* a filter without the global target and the global type
applicable_exact(m, systemName, damageType) ==
  m.systemName = systemName /\ m.type = damageType

applicable(m, systemName, damageType) ==
  /\ (m.systemName = systemName \/ m.systemName = "all")
  /\ (m.type = damageType \/ m.type = "all")

RECURSIVE ProductOf(_, _, _)
ProductOf(ms, systemName, damageType) ==
  IF ms = << >> THEN [num |-> 1, den |-> 1]
  ELSE LET r == ProductOf(Tail(ms), systemName, damageType)
       IN  IF applicable(Head(ms), systemName, damageType)
           THEN [num |-> r.num * Head(ms).modifier, den |-> r.den * 100]
           ELSE r

getDamageModifier(systemName, damageType, gs) ==
  ProductOf(gs.damageModifiers, systemName, damageType)

isZero(f) == f.num = 0
lessThanOne(f) == f.num < f.den

isSystemImmune(systemName, damageType, gs) ==
  isZero(getDamageModifier(systemName, damageType, gs))

RECURSIVE FilterMods(_, _, _)
FilterMods(ms, field, value) ==
  IF ms = << >> THEN << >>
  ELSE IF Head(ms)[field] # value
       THEN << Head(ms) >> \o FilterMods(Tail(ms), field, value)
       ELSE FilterMods(Tail(ms), field, value)

removeDamageModifiers(gs, systemName) ==
  [gs EXCEPT !.damageModifiers = FilterMods(@, "systemName", systemName)]

removeDamageModifiersBySource(gs, source) ==
  [gs EXCEPT !.damageModifiers = FilterMods(@, "source", source)]

\* Math.floor(damageTaken * modifier) for a factor num/den: the floor is
\* taken in health points, damage is given in units of 1/Scale
floorTimes(damage, f) == ((damage * f.num) \div (f.den * Scale)) * Scale

(* ------------------------------ systems ------------------------------- *)
Has(gs, name) == name \in DOMAIN gs.systems
health(gs, name) == gs.systems[name].health
setHealth(gs, name, h) == [gs EXCEPT !.systems[name].health = h]

\* the draws of Math.random() a handler consumes, as representatives of the
\* intervals the code distinguishes (percent): roll < chance decides
NavRolls == {0, 90}
CommsRolls == {0, 25}

\* `system.critical`: no system module of the repository carries the field,
\* so it reads undefined for every system; Life Support ends the game from
\* its own deteriorate function instead
critical(name) == FALSE

lifeSupport_deteriorate(gs) ==
  IF ~Has(gs, "Life Support") THEN gs
  ELSE LET h == Max(0, health(gs, "Life Support") - H(15))
           s == setHealth(gs, "Life Support", h)
       IN  IF h <= 0 THEN [s EXCEPT !.gameOver = TRUE] ELSE s

\* the low-power penalty maps every other system to a copy with 5 less
lowPowerPenalty_unclamped(h) == h - H(5)
lowPowerPenalty(h) == Max(0, h - H(5))

power_deteriorate(gs) ==
  IF ~Has(gs, "Power") THEN gs
  ELSE LET h == Max(0, health(gs, "Power") - H(10))
           s == setHealth(gs, "Power", h)
       IN  IF h < H(50)
           THEN [s EXCEPT !.systems =
                   [n \in DOMAIN s.systems |->
                      IF n # "Power"
                      THEN [health |-> lowPowerPenalty(s.systems[n].health),
                            lastFixedTurn |-> s.systems[n].lastFixedTurn]
                      ELSE s.systems[n]]]
           ELSE s

navigationChance(h) ==
  IF h <= 0 THEN 90
  ELSE IF h <= H(25) THEN 75
  ELSE IF h <= H(50) THEN 50
  ELSE IF h <= H(75) THEN 25
  ELSE 0

\* a navigation that draws for the cancellation whatever Comms is
navigation_deteriorate_alone(gs, rnd) ==
  IF ~Has(gs, "Navigation") THEN gs
  ELSE LET h == Max(0, health(gs, "Navigation") - H(20))
           s == setHealth(gs, "Navigation", h)
       IN  IF rnd.nav < navigationChance(h)
           THEN [s EXCEPT !.turn = Max(1, @ - 1)]
           ELSE s

navigation_deteriorate(gs, rnd) ==
  IF ~Has(gs, "Navigation") THEN gs
  ELSE LET h == Max(0, health(gs, "Navigation") - H(20))
           s == setHealth(gs, "Navigation", h)
       IN  IF Has(s, "Comms") /\ health(s, "Comms") > 0 THEN s
           ELSE IF rnd.nav < navigationChance(h)
                THEN [s EXCEPT !.turn = Max(1, @ - 1)]
                ELSE s

\* a Comms whose draw grants two extra turns
comms_deteriorate_double(gs, rnd) ==
  IF ~Has(gs, "Comms") THEN gs
  ELSE LET h == Max(0, health(gs, "Comms") - H(20))
           s == setHealth(gs, "Comms", h)
       IN  IF rnd.comms < 25 THEN [s EXCEPT !.turn = @ + 2] ELSE s

comms_deteriorate(gs, rnd) ==
  IF ~Has(gs, "Comms") THEN gs
  ELSE LET h == Max(0, health(gs, "Comms") - H(20))
           s == setHealth(gs, "Comms", h)
       IN  IF rnd.comms < 25 THEN [s EXCEPT !.turn = @ + 1] ELSE s

shields_deteriorate(gs) ==
  IF ~Has(gs, "Shields") THEN gs
  ELSE setHealth(gs, "Shields", Max(0, health(gs, "Shields") - H(10)))

\* system.deteriorate, dispatched on the module
deteriorate(name, gs, rnd) ==
  CASE name = "Life Support" -> lifeSupport_deteriorate(gs)
    [] name = "Power" -> power_deteriorate(gs)
    [] name = "Navigation" -> navigation_deteriorate(gs, rnd)
    [] name = "Comms" -> comms_deteriorate(gs, rnd)
    [] name = "Shields" -> shields_deteriorate(gs)
    [] OTHER -> gs

\* the factor Shields installs for its own health (percent), 100 = none
shieldsTier(h) ==
  IF h >= H(90) THEN 50
  ELSE IF h >= H(75) THEN 75
  ELSE IF h >= H(50) THEN 90
  ELSE 100

\* turns the Shields modifier is added with
shieldsTurnsLeft == 1

shields_update(gs) ==
  IF ~Has(gs, "Shields") THEN gs
  ELSE LET s == removeDamageModifiers(gs, "Shields")
           h == health(gs, "Shields")
       IN  IF h > 0 /\ shieldsTier(h) < 100
           THEN addDamageModifier(s, "all", shieldsTier(h), "negative_events",
                                  shieldsTurnsLeft, "null")
           ELSE s

protection_initialize(gs) ==
  [gs EXCEPT !.protectionState =
     [isProtecting |-> FALSE, targetSystem |-> "null",
      startDeteriorationCount |-> 0, endProtectionCount |-> 0,
      endCooldownCount |-> 0]]

protection_update(gs) ==
  LET ps == gs.protectionState
      currentCount == gs.deteriorationCount
  IN  IF ps.isProtecting /\ currentCount >= ps.endProtectionCount
      THEN removeDamageModifiersBySource(
             [gs EXCEPT !.protectionState.isProtecting = FALSE,
                        !.protectionState.targetSystem = "null"],
             "protection")
      ELSE gs

\* system.update, for the modules that have one
hasUpdate(name) ==
  \/ name = "Protection"
  \/ name = "Shields" /\ config.shields = "update"

update(name, gs) ==
  CASE name = "Protection" -> protection_update(gs)
    [] name = "Shields" /\ config.shields = "update" -> shields_update(gs)
    [] OTHER -> gs

hasDeteriorate(name) == name # "Protection"

\* the Life Support module of systems/lifeSupport.js holds data only (name,
\* deteriorationRate, caveat): it has no deteriorate and no fix function
dataOnly(name) == name = "Life Support" /\ config.lifeSupport = "data"

(* -------------------------- deterioration pass ------------------------ *)
\* the last-fixed rule of applySystemDeterioration
fixedLastTurn(gs, name) == gs.systems[name].lastFixedTurn = gs.turn - 1

\* the system's own deteriorate function is reached
deteriorates(gs, name) ==
  /\ ~fixedLastTurn(gs, name)
  /\ ~isZero(getDamageModifier(name, "deterioration", gs))

applySystemDeterioration(name, gs, rnd) ==
  IF fixedLastTurn(gs, name) THEN gs
  ELSE
    LET modifier == getDamageModifier(name, "deterioration", gs)
    IN  IF isZero(modifier) THEN gs
        ELSE
          Let(deteriorate(name, gs, rnd), LAMBDA s1 :
            LET \* every deteriorate function writes its own system object in
                \* place, and gameState.systems[i] is that same object:
                \* originalHealth is read after the write
                originalHealth == health(s1, name)
                newHealth == health(s1, name)
                damageTaken == originalHealth - newHealth
                actualDamage == damageTaken - floorTimes(damageTaken, modifier)
                finalHealth == IF lessThanOne(modifier)
                               THEN Max(0, originalHealth - actualDamage)
                               ELSE newHealth
            IN  IF critical(name) /\ finalHealth <= 0 /\ ~s1.gameOver
                THEN [setHealth(s1, name, finalHealth) EXCEPT !.gameOver = TRUE, !.win = FALSE]
                ELSE setHealth(s1, name, finalHealth))

\* the deterioration decided before the system's own update
updateNormalSystem_swapped(name, gs, rnd) ==
  Let(applySystemDeterioration(name, gs, rnd),
      LAMBDA s : IF hasUpdate(name) THEN update(name, s) ELSE s)

updateNormalSystem(name, gs, rnd) ==
  Let(IF hasUpdate(name) THEN update(name, gs) ELSE gs,
      LAMBDA s : applySystemDeterioration(name, s, rnd))

updateActiveSystem(name, gs, rnd) ==
  Let(IF hasUpdate(name) THEN update(name, gs) ELSE gs,
      LAMBDA s : IF hasDeteriorate(name) THEN applySystemDeterioration(name, s, rnd) ELSE s)

updateSystem(name, gs, rnd) ==
  IF typeOrNormal(name) = "active" THEN updateActiveSystem(name, gs, rnd)
  ELSE updateNormalSystem(name, gs, rnd)

\* deteriorateFunction.call(system, ...) is reached for a system whose
\* module has no deteriorate function: a TypeError leaves updateNormalSystem
deteriorateThrows(name, gs) ==
  dataOnly(name) /\ typeOrNormal(name) = "normal" /\ deteriorates(gs, name)

\* the states after each system of the loop of deteriorateSystems; an error
\* leaves the loop, no later system is updated
RECURSIVE passTrace(_, _, _)
passTrace(names, gs, rnd) ==
  IF names = << >> THEN << gs >>
  ELSE IF deteriorateThrows(Head(names), gs)
       THEN [i \in 1..(Len(names) + 1) |-> gs]
       ELSE Let(updateSystem(Head(names), gs, rnd),
                LAMBDA s : << gs >> \o passTrace(Tail(names), s, rnd))

\* the loop was left by an error
passThrows(names, trace) ==
  \E i \in 1..Len(names) : deteriorateThrows(names[i], trace[i])

Last(s) == s[Len(s)]

\* a guard that lets a call with the count already tracked run the pass
passRuns_orEqual(gs, force, last) == force \/ gs.deteriorationCount >= last

\* deteriorateSystems(gameState, force): `last` is lastDeteriorationCount
passRuns(gs, force, last) == force \/ gs.deteriorationCount > last

\* the loop of deteriorateSystems and the tick that follows it
\* (an error leaves deteriorateSystems before the tick: the command fails and
\* the invoker keeps the context it had, whose system objects are the ones
\* the loop has written)
passStages(gs, force, last, rnd) ==
  IF passRuns(gs, force, last)
  THEN Let(passTrace(SysSeq, gs, rnd), LAMBDA trace :
         IF passThrows(SysSeq, trace)
         THEN [ran |-> TRUE, threw |-> TRUE, trace |-> trace,
               out |-> [gs EXCEPT !.systems = Last(trace).systems]]
         ELSE [ran |-> TRUE, threw |-> FALSE, trace |-> trace,
               out |-> updateDamageModifiers(Last(trace))])
  ELSE [ran |-> FALSE, threw |-> FALSE, trace |-> << gs >>, out |-> gs]

deteriorateSystems(gs, force, last, rnd) == passStages(gs, force, last, rnd).out

(* ------------------------------ win / lose ---------------------------- *)
allSystemsFailed(gs) == \A n \in DOMAIN gs.systems : health(gs, n) <= 0

\* `updatedState.turn >= updatedState.maxTurns`
rescueArrived_late(gs) == gs.turn > gs.maxTurns
rescueArrived(gs) == gs.turn >= gs.maxTurns

\* an evaluator that clears the flag when neither rule applies
checkWinLose_reset(gs) ==
  IF allSystemsFailed(gs) THEN [gs EXCEPT !.gameOver = TRUE, !.win = FALSE]
  ELSE IF rescueArrived(gs) THEN [gs EXCEPT !.gameOver = TRUE, !.win = TRUE]
  ELSE [gs EXCEPT !.gameOver = FALSE, !.win = FALSE]

checkWinLose(gs) ==
  IF allSystemsFailed(gs) THEN [gs EXCEPT !.gameOver = TRUE, !.win = FALSE]
  ELSE IF rescueArrived(gs) THEN [gs EXCEPT !.gameOver = TRUE, !.win = TRUE]
  ELSE [gs EXCEPT !.win = FALSE]

(* --------------------------- system selection ------------------------- *)
\* systemSelectionOptions of the two callers, named by their owner
maxSelections(owner) == IF owner = "motivated" THEN 2 ELSE 1
multiSelect(owner) == owner = "motivated"
showCancelButton(owner) == owner # "motivated"

enterSystemSelectionMode(gs, owner) ==
  [gs EXCEPT !.systemSelectionMode = TRUE, !.selectionOwner = owner,
             !.selectedSystems = << >>, !.interactiveMode = TRUE]

exitSystemSelectionMode(gs) ==
  [gs EXCEPT !.systemSelectionMode = FALSE, !.selectionOwner = "null",
             !.selectedSystems = << >>, !.interactiveMode = FALSE]

(* -------------------------------- events ------------------------------ *)
isNegative(e) == \E i \in 1..Len(negativeEvents) : negativeEvents[i] = e
isPositive(e) == \E i \in 1..Len(positiveEvents) : positiveEvents[i] = e

meteorShower_apply(gs) ==
  [gs EXCEPT !.systems =
     [n \in DOMAIN gs.systems |->
        [health |-> Max(0, gs.systems[n].health - H(30)),
         lastFixedTurn |-> gs.systems[n].lastFixedTurn]]]

powerSurge_apply(gs) ==
  [gs EXCEPT !.systems =
     [n \in DOMAIN gs.systems |->
        IF isSystemImmune(n, "negative_events", gs) THEN gs.systems[n]
        ELSE [health |-> Max(0, gs.systems[n].health - H(IF n = "Power" THEN 30 ELSE 15)),
              lastFixedTurn |-> gs.systems[n].lastFixedTurn]]]

oxygenLeak_apply(gs) ==
  IF Has(gs, "Life Support") /\ ~isSystemImmune("Life Support", "negative_events", gs)
  THEN setHealth(gs, "Life Support", Max(0, health(gs, "Life Support") - H(35)))
  ELSE gs

supplyCache_apply(gs, rnd) == setHealth(gs, rnd.supply, H(100))

\* an apply that repairs every system before the selection is opened
motivated_apply_eager(gs) ==
  enterSystemSelectionMode(
    [gs EXCEPT !.systems = [n \in DOMAIN gs.systems |->
                              [gs.systems[n] EXCEPT !.health = H(100)]]],
    "motivated")

motivated_apply(gs) == enterSystemSelectionMode(gs, "motivated")

\* alienSignal exports `effect` and no `apply`: calling apply throws
applyThrows(e) == e = "alienSignal"
hasApply_all(e) == TRUE
hasApply(e) == ~applyThrows(e)

apply(e, gs, rnd) ==
  CASE e = "meteorShower" -> meteorShower_apply(gs)
    [] e = "powerSurge" -> powerSurge_apply(gs)
    [] e = "oxygenLeak" -> oxygenLeak_apply(gs)
    [] e = "supplyCache" -> supplyCache_apply(gs, rnd)
    [] e = "motivated" -> motivated_apply(gs)
    [] OTHER -> gs

\* the events that write system objects in place: the systems array of the
\* state before the event holds the same objects and shows the new health
writesInPlace(e) == e \in {"oxygenLeak", "supplyCache"}

\* the pre-event state as the code reads it back after event.apply
stateBeforeEventSeen(e, before, after) ==
  IF writesInPlace(e) THEN [before EXCEPT !.systems = after.systems] ELSE before

\* the health applyDamageModifiersToEvent writes for a partial factor
modifiedEventHealth(originalHealth, newHealth, modifier) ==
  LET damageTaken == originalHealth - newHealth
      modifiedDamage == floorTimes(damageTaken, modifier)
      actualDamage == damageTaken - modifiedDamage
  IN  Max(0, originalHealth - actualDamage)

applyDamageModifiersToEvent(stateAfterEvent, stateBeforeEvent) ==
  [stateAfterEvent EXCEPT !.systems =
     [n \in DOMAIN stateAfterEvent.systems |->
        LET system == stateAfterEvent.systems[n]
            originalHealth == stateBeforeEvent.systems[n].health
            newHealth == system.health
            modifier == getDamageModifier(n, "negative_events", stateAfterEvent)
        IN  IF newHealth < originalHealth
            THEN IF isZero(modifier)
                 THEN [system EXCEPT !.health = originalHealth]
                 ELSE IF lessThanOne(modifier)
                      THEN [system EXCEPT !.health =
                              modifiedEventHealth(originalHealth, newHealth, modifier)]
                      ELSE system
            ELSE system]]

\* the loop over critical systems after an event: sets gameOver only
criticalCheckAfterEvent(gs) ==
  IF ~gs.gameOver /\ \E n \in DOMAIN gs.systems : critical(n) /\ health(gs, n) <= 0
  THEN [gs EXCEPT !.gameOver = TRUE]
  ELSE gs

\* Shields.onEvent: the absorption rate in percent
absorptionRate(h) ==
  IF h >= H(90) THEN 50
  ELSE IF h >= H(75) THEN 25
  ELSE IF h >= H(50) THEN 10
  ELSE 0

damageOf(gs, originalState, n) == Max(0, health(originalState, n) - health(gs, n))

RECURSIVE SumDamage(_, _, _)
SumDamage(names, gs, originalState) ==
  IF names = << >> THEN 0
  ELSE damageOf(gs, originalState, Head(names)) + SumDamage(Tail(names), gs, originalState)

\* the loop handing the absorbed amount back to the damaged systems, in order
RECURSIVE distribute(_, _, _, _)
distribute(names, gs, originalState, remainingAbsorption) ==
  IF names = << >> THEN gs
  ELSE LET n == Head(names)
           d == damageOf(gs, originalState, n)
           reduceAmount == Min(d, remainingAbsorption)
       IN  IF d > 0 /\ n # "Shields"
           THEN Let(setHealth(gs, n, health(gs, n) + reduceAmount), LAMBDA s :
                  IF remainingAbsorption - reduceAmount <= 0 THEN s
                  ELSE distribute(Tail(names), s, originalState,
                                  remainingAbsorption - reduceAmount))
           ELSE distribute(Tail(names), gs, originalState, remainingAbsorption)

\* totalDamage * absorptionRate, in units of 1/Scale
absorptionOf(gs, originalState) ==
  (SumDamage(SysSeq, gs, originalState) * absorptionRate(health(gs, "Shields"))) \div 100

\* the reaction works on a fraction of the damage
absorbs(gs, e, originalState) ==
  /\ isNegative(e)
  /\ Has(gs, "Shields") /\ health(gs, "Shields") > 0
  /\ absorptionOf(gs, originalState) > 0

shields_onEvent(gs, e, originalState) ==
  IF isNegative(e) /\ SumDamage(SysSeq, gs, originalState) > 0
     /\ Has(gs, "Shields") /\ health(gs, "Shields") > 0
  THEN LET absorption == absorptionOf(gs, originalState)
           \* each system's damage is read before the loop writes its health
           s == distribute(SysSeq, gs, originalState, absorption)
       IN  setHealth(s, "Shields", Max(0, health(gs, "Shields") - absorption))
  ELSE gs

hasOnEvent(name) == name = "Shields" /\ config.shields = "onEvent"

\* the loop `if (system.onEvent)` over the systems
reactions(gs, e, originalState) ==
  IF \E n \in DOMAIN gs.systems : hasOnEvent(n)
  THEN shields_onEvent(gs, e, originalState)
  ELSE gs

\* the outcome of the three draws of triggerEvent: no event, or one event of
\* the positive or of the negative pool
EventDraws ==
  {"none"} \cup {positiveEvents[i] : i \in 1..Len(positiveEvents)}
           \cup {negativeEvents[i] : i \in 1..Len(negativeEvents)}

\* the non-interactive branch of triggerEvent, step by step
eventStages(gs, rnd) ==
  Let(apply(rnd.event, gs, rnd), LAMBDA applied :
  Let(stateBeforeEventSeen(rnd.event, gs, applied), LAMBDA stateBeforeEvent :
  Let(IF isNegative(rnd.event)
      THEN applyDamageModifiersToEvent(applied, stateBeforeEvent)
      ELSE applied, LAMBDA post :
  Let(criticalCheckAfterEvent(post), LAMBDA checked :
    [applied |-> applied, post |-> post,
     absorbed |-> (\E n \in DOMAIN gs.systems : hasOnEvent(n))
                  /\ absorbs(checked, rnd.event, stateBeforeEvent),
     out |-> reactions(checked, rnd.event, stateBeforeEvent)]))))

triggerEvent(gs, rnd) ==
  IF rnd.event = "none" THEN gs ELSE eventStages(gs, rnd).out

(* ---------------------------- turn sequence --------------------------- *)
AdvanceTurnCommand(gs) ==
  [gs EXCEPT !.turn = @ + 1, !.deteriorationCount = @ + 1]

\* the event phase is entered: the game is not over after the first check
eventPhase_always(gs) == TRUE
eventPhase(gs) == ~gs.gameOver

\* an event is drawn and its apply function exists
resolves(gs, rnd) == eventPhase(gs) /\ rnd.event # "none" /\ hasApply(rnd.event)

\* a command that throws leaves the context as it was
TriggerEventCommand(gs, rnd) ==
  IF resolves(gs, rnd) THEN triggerEvent(gs, rnd) ELSE gs

\* the commands of setupStandardSequence, with the state after each
turnStages(moved, last, rnd) ==
  Let(AdvanceTurnCommand(moved), LAMBDA adv :
  Let(passStages(adv, FALSE, last, rnd), LAMBDA pass :
  Let(checkWinLose(pass.out), LAMBDA chk1 :
  Let(IF resolves(chk1, rnd)
      THEN eventStages(chk1, rnd)
      ELSE [applied |-> chk1, post |-> chk1, absorbed |-> FALSE, out |-> chk1],
      LAMBDA es :
    [moved |-> moved, adv |-> adv, ran |-> pass.ran, threw |-> pass.threw,
     trace |-> pass.trace,
     det |-> pass.out, chk1 |-> chk1, resolved |-> resolves(chk1, rnd),
     applied |-> es.applied, post |-> es.post, absorbed |-> es.absorbed,
     ev |-> es.out, final |-> checkWinLose(es.out)]))))

\* the sequence as a function: commands composed in the order of the invoker
executeTurnSequence(gs, last, rnd) ==
  Let(AdvanceTurnCommand(gs), LAMBDA adv :
  Let(deteriorateSystems(adv, FALSE, last, rnd), LAMBDA det :
  Let(checkWinLose(det), LAMBDA chk1 :
  Let(TriggerEventCommand(chk1, rnd), LAMBDA ev : checkWinLose(ev)))))

\* the value lastDeteriorationCount has after deteriorateSystems(gs)
trackedCount(gs, last) ==
  IF gs.deteriorationCount > last THEN gs.deteriorationCount ELSE last

(* ------------------------------ player moves -------------------------- *)
\* system.fix sets the health to 100, fixSystem stamps lastFixedTurn
fixSystem(gs, systemName) ==
  [gs EXCEPT !.systems[systemName] = [health |-> H(100), lastFixedTurn |-> gs.turn]]

RecoveryRolls == {0, 10}
recoveryHealth == 50

\* attemptForceRecovery up to the turn sequence
forceRecoveryAction(gs, systemName, rnd) ==
  IF rnd.recovery < 10 THEN setHealth(gs, systemName, H(recoveryHealth)) ELSE gs

\* handleNormalInteraction: the branch is chosen by the health of the target
handleNormalInteractionStages(systemName, gs, last, rnd) ==
  Let(IF health(gs, systemName) <= 0
      THEN forceRecoveryAction(gs, systemName, rnd)
      ELSE fixSystem(gs, systemName),
      LAMBDA moved : turnStages(moved, last, rnd))

handleNormalInteraction(systemName, gs, last, rnd) ==
  Let(IF health(gs, systemName) <= 0
      THEN forceRecoveryAction(gs, systemName, rnd)
      ELSE fixSystem(gs, systemName),
      LAMBDA moved : executeTurnSequence(moved, last, rnd))

\* selectSystem: toggles the system in the selection
Without(s, x) == SelectSeq2(s, {s[i] : i \in 1..Len(s)} \ {x})
Includes(s, x) == \E i \in 1..Len(s) : s[i] = x

\* a selection that adds every system clicked that is not yet selected
selectSystem_append(gs, systemName) ==
  IF ~gs.systemSelectionMode \/ ~Has(gs, systemName)
     \/ typeOrNormal(systemName) # "normal"
  THEN gs
  ELSE IF Includes(gs.selectedSystems, systemName)
       THEN [gs EXCEPT !.selectedSystems = Without(@, systemName)]
       ELSE [gs EXCEPT !.selectedSystems = Append(@, systemName)]

selectSystem(gs, systemName) ==
  IF ~gs.systemSelectionMode \/ ~Has(gs, systemName)
     \/ typeOrNormal(systemName) # "normal"
  THEN gs
  ELSE IF multiSelect(gs.selectionOwner)
       THEN IF Includes(gs.selectedSystems, systemName)
            THEN [gs EXCEPT !.selectedSystems = Without(@, systemName)]
            ELSE IF Len(gs.selectedSystems) < maxSelections(gs.selectionOwner)
                 THEN [gs EXCEPT !.selectedSystems = Append(@, systemName)]
                 ELSE gs
       ELSE IF Includes(gs.selectedSystems, systemName)
            THEN [gs EXCEPT !.selectedSystems = << >>]
            ELSE [gs EXCEPT !.selectedSystems = << systemName >>]

\* the selection callback of protection.handleInteraction
protectionCallbackAccepts(gs, selectedSystems) ==
  /\ selectedSystems # << >>
  /\ Has(gs, selectedSystems[1])
  /\ sysType(selectedSystems[1]) = "normal"

protection_selectionCallback(gs, selectedSystems) ==
  IF ~protectionCallbackAccepts(gs, selectedSystems) THEN gs
  ELSE LET targetSystemName == selectedSystems[1]
           currentCount == gs.deteriorationCount
           s0 == [gs EXCEPT !.protectionState =
                    [isProtecting |-> TRUE, targetSystem |-> targetSystemName,
                     startDeteriorationCount |-> currentCount,
                     endProtectionCount |-> currentCount + 3,
                     endCooldownCount |-> currentCount + 3 + 5]]
           s1 == addDamageModifier(s0, targetSystemName, 0, "deterioration", 3, "protection")
       IN  addDamageModifier(s1, targetSystemName, 0, "negative_events", 3, "protection")

\* the repair callback of the motivated event
RECURSIVE motivated_repairCallback(_, _)
motivated_repairCallback(gs, selectedSystems) ==
  IF selectedSystems = << >> THEN gs
  ELSE motivated_repairCallback(
         IF Has(gs, Head(selectedSystems))
         THEN setHealth(gs, Head(selectedSystems), H(100)) ELSE gs,
         Tail(selectedSystems))

confirmSystemSelection(gs) ==
  IF ~gs.systemSelectionMode THEN gs
  ELSE Let(IF gs.selectionOwner = "protection"
           THEN protection_selectionCallback(gs, gs.selectedSystems)
           ELSE motivated_repairCallback(gs, gs.selectedSystems),
           LAMBDA result : exitSystemSelectionMode(result))

\* a cancel that runs the callback of the selection before leaving the mode
cancelSystemSelection_apply(gs) == confirmSystemSelection(gs)

cancelSystemSelection(gs) ==
  IF ~gs.systemSelectionMode THEN gs ELSE exitSystemSelectionMode(gs)

\* protection.handleInteraction("activate"): the readiness test
protectionReady(gs) ==
  LET ps == gs.protectionState
      isOnCooldown == ~ps.isProtecting /\ gs.deteriorationCount < ps.endCooldownCount
  IN  ~(ps.isProtecting \/ isOnCooldown)

protection_handleInteraction(gs) ==
  IF protectionReady(gs) THEN enterSystemSelectionMode(gs, "protection") ELSE gs

\* updateSystemSelectability: the systems the selection screen lets one pick
selectable(gs, name) ==
  /\ Has(gs, name)
  /\ typeOrNormal(name) = "normal"
  /\ (gs.selectionOwner = "motivated" => health(gs, name) < H(100))

(* ------------------------------ new game ------------------------------ *)
createGameState(initial) ==
  LET gs == [turn |-> 1,
             maxTurns |-> Cardinality(SysNames) * 5,
             deteriorationCount |-> 0,
             systems |-> [n \in SysNames |->
                            [health |-> IF sysType(n) = "normal" THEN H(initial[n]) ELSE H(100),
                             lastFixedTurn |-> 0]],
             damageModifiers |-> << >>,
             gameOver |-> FALSE, win |-> FALSE,
             interactiveMode |-> FALSE, systemSelectionMode |-> FALSE,
             selectionOwner |-> "null", selectedSystems |-> << >>,
             protectionState |-> [isProtecting |-> FALSE, targetSystem |-> "null",
                                  startDeteriorationCount |-> 0,
                                  endProtectionCount |-> 0, endCooldownCount |-> 0]]
  IN  IF "Protection" \in SysNames THEN protection_initialize(gs) ELSE gs

\* value of the module variable lastDeteriorationCount when the page loads
initialLastDeteriorationCount == -1

(* ------------------------- observation of a turn ---------------------- *)
inRange(gs) == \A n \in DOMAIN gs.systems : health(gs, n) >= 0 /\ health(gs, n) <= H(100)

RECURSIVE IndexOf(_, _)
IndexOf(s, x) == IF s = << >> THEN 0 ELSE IF Head(s) = x THEN 1 ELSE 1 + IndexOf(Tail(s), x)

\* the state a system's deterioration is decided in: after its own update
afterUpdate(name, gs) == IF hasUpdate(name) THEN update(name, gs) ELSE gs

\* the deterioration of the system is skipped for immunity alone
immuneSkip(gs, name) ==
  /\ ~fixedLastTurn(gs, name)
  /\ isZero(getDamageModifier(name, "deterioration", gs))

\* what a pending selection has to leave alone
frameOf(gs) ==
  [turn |-> gs.turn, deteriorationCount |-> gs.deteriorationCount,
   health |-> [n \in DOMAIN gs.systems |-> health(gs, n)],
   damageModifiers |-> gs.damageModifiers, protectionState |-> gs.protectionState]

\* the entry shields.update adds: every system, negative events, no source
shieldsOwn(m) ==
  m.systemName = "all" /\ m.type = "negative_events" /\ m.source = "null"

\* every entry of the ledger `before` that Shields did not add is in `after`
othersKept(before, after) ==
  \A i \in 1..Len(before) :
     ~shieldsOwn(before[i]) => \E j \in 1..Len(after) : after[j] = before[i]

\* what is remembered of the last handler, for the properties below
turnHist(h, action, target, st, rnd) ==
  LET names == DOMAIN st.moved.systems
      shieldsAt == IndexOf(SysSeq, "Shields")
      navAt == IndexOf(SysSeq, "Navigation")
  IN  [h EXCEPT
        !.action = action,
        !.target = target,
        !.accepted = TRUE,
        !.ran = st.ran,
        !.event = IF st.resolved THEN rnd.event ELSE "none",
        !.eventPhase = eventPhase(st.chk1),
        !.outOfRange =
           \/ \E i \in 1..Len(st.trace) : ~inRange(st.trace[i])
           \/ ~inRange(st.moved) \/ ~inRange(st.det) \/ ~inRange(st.applied)
           \/ ~inRange(st.post) \/ ~inRange(st.ev) \/ ~inRange(st.final),
        !.lsKilled = /\ "Life Support" \in names
                     /\ health(st.adv, "Life Support") > 0
                     /\ health(st.det, "Life Support") <= 0,
        !.detLoss = {n \in names : st.ran /\
                       health(st.trace[IndexOf(SysSeq, n) + 1], n)
                         < health(st.trace[IndexOf(SysSeq, n)], n)},
        !.passLoss = {n \in names : health(st.det, n) < health(st.adv, n)},
        !.eventLoss = {n \in names : health(st.ev, n) < health(st.chk1, n)},
        !.eventDiff = {n \in names : health(st.ev, n) # health(st.chk1, n)},
        !.postDiff = {n \in names : health(st.post, n) # health(st.chk1, n)},
        !.raw = [n \in names |-> health(st.chk1, n) - health(st.applied, n)],
        !.lost = [n \in names |-> health(st.chk1, n) - health(st.post, n)],
        !.skipped = {n \in names : st.ran /\ hasDeteriorate(n) /\
                       immuneSkip(afterUpdate(n, st.trace[IndexOf(SysSeq, n)]), n)},
        !.immune = {n \in names : isSystemImmune(n, "negative_events", st.chk1)},
        !.below1 = \A n \in names :
                     lessThanOne(getDamageModifier(n, "negative_events", st.chk1)),
        !.shieldsUpd = /\ st.ran /\ "Shields" \in names /\ config.shields = "update"
                       /\ health(st.trace[shieldsAt], "Shields") >= H(50),
        !.fixes = IF action = "fix" THEN @ + 1 ELSE @,
        !.navCancelled = \/ @
                         \/ /\ st.ran /\ "Navigation" \in names
                            /\ st.trace[navAt + 1].turn < st.trace[navAt].turn,
        !.events = IF st.resolved THEN @ + 1 ELSE @,
        !.absorbs = IF st.absorbed THEN @ + 1 ELSE @,
        !.recovered = action = "recover" /\ rnd.recovery < 10,
        !.countBefore = st.moved.deteriorationCount,
        !.turnBefore = st.moved.turn,
        !.overAtCheck = st.chk1.gameOver,
        !.overInPass = st.det.gameOver,
        !.drawn = IF eventPhase(st.chk1) THEN rnd.event ELSE "none",
        !.eventStepSame = st.ev = st.chk1,
        !.threw = st.threw,
        !.entered = IF st.resolved /\ rnd.event = "motivated"
                    THEN << frameOf(st.chk1) >> ELSE << >>,
        !.chosen = {},
        !.exempt = {n \in names : st.ran /\
                      fixedLastTurn(st.trace[IndexOf(SysSeq, n)], n)},
        !.alive = {n \in names : st.ran /\
                     health(st.trace[IndexOf(SysSeq, n)], n) > 0},
        !.othersKept =
           (st.ran /\ "Shields" \in names /\ config.shields = "update") =>
              othersKept(st.trace[shieldsAt].damageModifiers,
                         shields_update(st.trace[shieldsAt]).damageModifiers),
        !.commsAtNav = /\ st.ran /\ "Navigation" \in names /\ "Comms" \in names
                       /\ health(st.trace[navAt], "Comms") > 0,
        !.navBack = /\ st.ran /\ "Navigation" \in names
                    /\ st.trace[navAt + 1].turn < st.trace[navAt].turn]

newHist(retries) ==
  [action |-> "init", target |-> "null", accepted |-> TRUE, ran |-> TRUE,
   event |-> "none", eventPhase |-> FALSE, outOfRange |-> FALSE,
   lsKilled |-> FALSE, detLoss |-> {}, passLoss |-> {}, eventLoss |-> {},
   eventDiff |-> {}, postDiff |-> {}, skipped |-> {}, raw |-> << >>, lost |-> << >>,
   immune |-> {}, below1 |-> FALSE, shieldsUpd |-> FALSE, fixes |-> 0,
   navCancelled |-> FALSE, absorbs |-> 0, events |-> 0, retries |-> retries,
   protN |-> -1, protTarget |-> "null",
   recovered |-> FALSE, countBefore |-> 0, turnBefore |-> 1,
   overBefore |-> FALSE, modeBefore |-> FALSE,
   changedPlay |-> FALSE, changedResult |-> FALSE, stale |-> FALSE,
   kept |-> TRUE, overAtCheck |-> FALSE, overInPass |-> FALSE,
   probeTurns |-> 0, probeTarget |-> "null", probeType |-> "null", ticks |-> 0,
   countWas |-> 0, drawn |-> "none", eventStepSame |-> TRUE, afterOver |-> 0,
   threw |-> FALSE, entered |-> << >>, chosen |-> {}, flag |-> "none",
   same |-> TRUE, escaped |-> FALSE, exempt |-> {},
   alive |-> {}, othersKept |-> TRUE, commsAtNav |-> FALSE, navBack |-> FALSE,
   pool |-> "none"]

\* a handler other than a turn: only the per-handler fields change
stepHist(h, action, target, accepted) ==
  [h EXCEPT !.action = action, !.target = target, !.accepted = accepted,
            !.event = "none", !.eventPhase = FALSE, !.lsKilled = FALSE,
            !.detLoss = {}, !.passLoss = {}, !.eventLoss = {}, !.immune = {},
            !.eventDiff = {}, !.postDiff = {}, !.skipped = {},
            !.raw = << >>, !.lost = << >>,
            !.below1 = FALSE, !.shieldsUpd = FALSE, !.ran = FALSE,
            !.recovered = FALSE, !.countBefore = gameState.deteriorationCount,
            !.turnBefore = gameState.turn,
            !.overBefore = gameState.gameOver,
            !.modeBefore = gameState.interactiveMode,
            !.changedPlay = FALSE, !.changedResult = FALSE, !.stale = FALSE,
            !.kept = TRUE, !.overAtCheck = FALSE, !.overInPass = FALSE,
            !.countWas = gameState.deteriorationCount,
            !.drawn = "none", !.eventStepSame = TRUE, !.threw = FALSE,
            !.exempt = {}, !.alive = {}, !.othersKept = TRUE,
            !.commsAtNav = FALSE, !.navBack = FALSE, !.pool = "none",
            !.entered = IF action \in {"select", "cancel", "confirm"}
                        THEN @ ELSE << >>,
            !.chosen = {}]

\* the state a request was made in, and what the handler changed of it
samePlay(a, b) ==
  /\ a.turn = b.turn /\ a.deteriorationCount = b.deteriorationCount
  /\ \A n \in DOMAIN a.systems : health(a, n) = health(b, n)
  /\ a.damageModifiers = b.damageModifiers

sameResult(a, b) == a.gameOver = b.gameOver /\ a.win = b.win

requestHist(h, before, after) ==
  [h EXCEPT !.overBefore = before.gameOver,
            !.modeBefore = before.interactiveMode,
            !.changedPlay = ~samePlay(before, after),
            !.changedResult = ~sameResult(before, after),
            !.stale = FALSE, !.kept = TRUE,
            !.countWas = gameState.deteriorationCount,
            !.afterOver = IF before.gameOver THEN @ + 1 ELSE @]

(* ------------------------------- draws -------------------------------- *)
Rnds(recoveryRolls) ==
  { r \in [nav : IF "Navigation" \in SysNames THEN NavRolls ELSE {0},
           comms : IF "Comms" \in SysNames THEN CommsRolls ELSE {25},
           supply : SysNames, recovery : recoveryRolls, event : EventDraws] :
      r.event # "supplyCache" => r.supply = SysSeq[1] }

\* the sessions followed: the systems and the events chosen on the setup
\* screen, and the Shields module in use
Configs ==
  { [systems |-> {"Life Support", "Power"}, shields |-> "update",
     lifeSupport |-> "module", positiveEvents |-> {"supplyCache", "alienSignal", "motivated"},
     negativeEvents |-> {"meteorShower", "powerSurge", "oxygenLeak"}],
    [systems |-> {"Life Support", "Navigation"}, shields |-> "update",
     lifeSupport |-> "module", positiveEvents |-> {}, negativeEvents |-> {}],
    [systems |-> {"Navigation", "Comms"}, shields |-> "update",
     lifeSupport |-> "module", positiveEvents |-> {"motivated"}, negativeEvents |-> {"powerSurge"}],
    [systems |-> {"Power", "Shields", "Protection"}, shields |-> "update",
     lifeSupport |-> "module", positiveEvents |-> {}, negativeEvents |-> {}],
    [systems |-> {"Power", "Shields", "Protection"}, shields |-> "onEvent",
     lifeSupport |-> "module", positiveEvents |-> {}, negativeEvents |-> {}],
    [systems |-> {"Shields", "Protection"}, shields |-> "update",
     lifeSupport |-> "module", positiveEvents |-> {"supplyCache"}, negativeEvents |-> {"meteorShower", "powerSurge"}],
    [systems |-> {"Shields", "Protection"}, shields |-> "onEvent",
     lifeSupport |-> "module", positiveEvents |-> {"supplyCache"}, negativeEvents |-> {"meteorShower", "powerSurge"}] }

(* ------------------------------- actions ------------------------------ *)
\* initializeGame: createGameState, then the initial deteriorateSystems
Init ==
  /\ config \in Configs
  /\ \E initial \in [SysNames -> InitialHealths] : \E rnd \in Rnds({10}) :
       /\ rnd.event = "none"
       /\ \E created \in {createGameState(initial)} :
            /\ gameState = deteriorateSystems(created, FALSE,
                                              initialLastDeteriorationCount, rnd)
            /\ hist = [newHist(0) EXCEPT
                        !.passLoss = {n \in SysNames :
                                        health(gameState, n) < health(created, n)}]
  /\ lastDeteriorationCount = 0
  /\ handlers = << >>

\* the buttons of the systems are enabled: the click handler disables them
\* while interactiveMode is set and enables them otherwise, game over included
canAct == ~gameState.interactiveMode

\* system.fix(gameState) is called on a module that has no fix function:
\* the TypeError is caught by handleNormalInteraction, which returns the
\* state object it was given
fixThrows(name, gs) == dataOnly(name) /\ health(gs, name) > 0

\* handleNormalInteraction(name, start) and the assignment of its result
TurnFrom(start, name, action, recoveryRolls) ==
  IF fixThrows(name, start)
  THEN /\ gameState' = start
       /\ hist' = requestHist(stepHist(hist, action, name, FALSE), start, start)
       /\ UNCHANGED << config, lastDeteriorationCount >>
  ELSE
  \E rnd \in Rnds(recoveryRolls) :
    /\ hist.events >= MaxEvents => rnd.event = "none"
    /\ \E st \in {handleNormalInteractionStages(name, start,
                                                 lastDeteriorationCount, rnd)} :
       \E h \in {requestHist(turnHist(hist, action, name, st, rnd),
                            start, st.final)} :
         /\ h.absorbs <= MaxAbsorb
         /\ eventPhase(st.chk1) \/ rnd.event = "none"
         /\ gameState' = st.final
         /\ lastDeteriorationCount' = trackedCount(st.adv, lastDeteriorationCount)
         /\ hist' = h
         /\ UNCHANGED config

\* a turn started by the fix button of `name`, the handler running alone
Turn(name, action, recoveryRolls) ==
  /\ TurnFrom(gameState, name, action, recoveryRolls)
  /\ UNCHANGED handlers

\* the requests followed after the end of a game
canGoOn == gameState.gameOver => hist.afterOver < MaxAfterOver

Fix(name) ==
  /\ canAct /\ canGoOn
  /\ gameState.deteriorationCount < MaxCount
  /\ typeOrNormal(name) = "normal"
  /\ health(gameState, name) > 0
  /\ Turn(name, "fix", {10})

ForceRecover(name) ==
  /\ canAct /\ canGoOn
  /\ gameState.deteriorationCount < MaxCount
  /\ typeOrNormal(name) = "normal"
  /\ health(gameState, name) <= 0
  /\ Turn(name, "recover", RecoveryRolls)

ActivateProtection ==
  /\ canAct
  /\ "Protection" \in SysNames
  /\ gameState' = protection_handleInteraction(gameState)
  /\ hist' = IF protectionReady(gameState)
             THEN [stepHist(hist, "activate", "Protection", TRUE) EXCEPT
                     !.entered = << frameOf(gameState) >>]
             ELSE hist
  /\ UNCHANGED << config, lastDeteriorationCount, handlers >>

SelectSystem(name) ==
  /\ gameState.systemSelectionMode
  /\ selectable(gameState, name)
  /\ gameState' = selectSystem(gameState, name)
  /\ hist' = stepHist(hist, "select", name, TRUE)
  /\ UNCHANGED << config, lastDeteriorationCount, handlers >>

\* the Confirm button is rendered disabled while nothing is selected
confirmEnabled(gs) == Len(gs.selectedSystems) > 0

ConfirmSystemSelection ==
  /\ gameState.systemSelectionMode
  /\ confirmEnabled(gameState)
  /\ gameState' = confirmSystemSelection(gameState)
  /\ LET owner == gameState.selectionOwner
         ok == owner = "protection"
               /\ protectionCallbackAccepts(gameState, gameState.selectedSystems)
         h == [stepHist(hist, "confirm", owner, owner = "motivated" \/ ok) EXCEPT
                 !.chosen = {gameState.selectedSystems[i] :
                               i \in 1..Len(gameState.selectedSystems)}]
     IN  hist' = IF ok
                 THEN [h EXCEPT !.protN = gameState.deteriorationCount,
                                !.protTarget = gameState.selectedSystems[1]]
                 ELSE h
  /\ UNCHANGED << config, lastDeteriorationCount, handlers >>

CancelSystemSelection ==
  /\ gameState.systemSelectionMode
  /\ showCancelButton(gameState.selectionOwner)
  /\ gameState' = cancelSystemSelection(gameState)
  /\ hist' = stepHist(hist, "cancel", "null", TRUE)
  /\ UNCHANGED << config, lastDeteriorationCount, handlers >>

\* the retry button: a new game in the same page, the module variable stays
Retry ==
  /\ gameState.gameOver
  /\ hist.retries < MaxRetries
  /\ \E initial \in [SysNames -> InitialHealths] : \E rnd \in Rnds({10}) :
       /\ rnd.event = "none"
       /\ \E created \in {createGameState(initial)} :
            /\ gameState' = deteriorateSystems(created, FALSE,
                                               lastDeteriorationCount, rnd)
            /\ lastDeteriorationCount' = trackedCount(created, lastDeteriorationCount)
  /\ hist' = [newHist(hist.retries + 1) EXCEPT !.action = "retry", !.ran = FALSE]
  /\ UNCHANGED << config, handlers >>

Next ==
  \/ \E name \in SysNames : Fix(name)
  \/ \E name \in SysNames : ForceRecover(name)
  \/ ActivateProtection
  \/ \E name \in SysNames : SelectSystem(name)
  \/ ConfirmSystemSelection
  \/ CancelSystemSelection
  \/ Retry

Spec == Init /\ [][Next]_vars

(* ------------- event resolution while Shields' modifier is held -------- *)
\* the healths a new game can give a normal system, around the Shields tiers
EventHealths == {50, 74, 75, 89, 90, 100}

EventConfigs ==
  { [systems |-> {"Life Support", "Power", "Shields"}, shields |-> "update",
     lifeSupport |-> "module", positiveEvents |-> {},
     negativeEvents |-> {"meteorShower", "powerSurge", "oxygenLeak"}],
    [systems |-> {"Power", "Navigation", "Shields"}, shields |-> "update",
     lifeSupport |-> "module", positiveEvents |-> {}, negativeEvents |-> {"meteorShower", "powerSurge"}] }

\* the first pass of a new game, stopped right after Shields.update: the
\* systems ahead of Shields have no update and do not deteriorate at turn 1
InitEvent ==
  /\ config \in EventConfigs
  /\ \E initial \in [SysNames -> EventHealths] :
       gameState = shields_update(createGameState(initial))
  /\ lastDeteriorationCount = 0
  /\ hist = newHist(0)
  /\ handlers = << >>

\* the non-interactive branch of triggerEvent on a drawn negative event
ResolveNegativeEvent(e) ==
  /\ hist.events < MaxEvents
  /\ isNegative(e)
  /\ \E rnd \in Rnds({10}) :
       /\ rnd.event = e /\ rnd.nav = 0 /\ rnd.comms = 25
       /\ \E ev \in {eventStages(gameState, rnd)} :
            /\ gameState' = ev.out
            /\ hist' = [newHist(0) EXCEPT
                  !.action = "event", !.event = e, !.events = hist.events + 1,
                  !.raw = [n \in SysNames |-> health(gameState, n) - health(ev.applied, n)],
                  !.lost = [n \in SysNames |-> health(gameState, n) - health(ev.post, n)]]
  /\ UNCHANGED << config, lastDeteriorationCount, handlers >>

NextEvent == \E e \in EventDraws : ResolveNegativeEvent(e)

SpecEvent == InitEvent /\ [][NextEvent]_vars

(* ---------------- clicks that arrive while a handler is pending -------- *)
\* The click handler of game.js is an async function: it awaits the import
\* of the interaction module, then calls handleNormalInteraction with the
\* gameState variable as it is at that moment, and assigns the result to
\* the variable when the pipeline has returned.  The state objects are
\* shallow copies: turn, deteriorationCount, the flags and the ledger belong
\* to each copy, the system objects are shared by all of them.
MaxHandlers == 2
MaxAsyncCount == 3

\* sessions whose systems array is never replaced (no Power, no event that
\* maps the array), so that every state object holds the same system objects
AsyncConfigs ==
  { [systems |-> {"Life Support", "Comms"}, shields |-> "update",
     lifeSupport |-> "module", positiveEvents |-> {"motivated"}, negativeEvents |-> {"oxygenLeak"}] }

InitAsync ==
  /\ config \in AsyncConfigs
  /\ \E initial \in [SysNames -> InitialHealths] : \E rnd \in Rnds({10}) :
       /\ rnd.event = "none"
       /\ \E created \in {createGameState(initial)} :
            gameState = deteriorateSystems(created, FALSE,
                                           initialLastDeteriorationCount, rnd)
  /\ lastDeteriorationCount = 0
  /\ hist = newHist(0)
  /\ handlers = << >>

RemoveAt(s, i) == SubSeq(s, 1, i - 1) \o SubSeq(s, i + 1, Len(s))

\* a click on the enabled fix button of `name`: the handler starts and
\* waits for import("./normalSystems.js")
Click(name) ==
  /\ canAct
  /\ Len(handlers) < MaxHandlers
  /\ gameState.deteriorationCount + Len(handlers) < MaxAsyncCount
  /\ typeOrNormal(name) = "normal"
  /\ handlers' = Append(handlers, [systemName |-> name, arg |-> << >>])
  /\ hist' = stepHist(hist, "click", name, TRUE)
  /\ UNCHANGED << config, gameState, lastDeteriorationCount >>

\* the import has resolved: handleNormalInteraction(systemName, gameState,
\* config) is called and holds the state object it was given
Call(i) ==
  /\ handlers[i].arg = << >>
  /\ handlers' = [handlers EXCEPT ![i].arg = << gameState >>]
  /\ hist' = stepHist(hist, "call", handlers[i].systemName, TRUE)
  /\ UNCHANGED << config, gameState, lastDeteriorationCount >>

\* the state object of a pending call as the pipeline reads it: its own
\* scalar fields, the shared system objects
seenBy(h) == [h.arg[1] EXCEPT !.systems = gameState.systems]

\* attemptForceRecovery returns the state it was given in interactive mode
recoveryBlocked(gs, name) == health(gs, name) <= 0 /\ gs.interactiveMode

\* the pipeline of a pending call runs and `gameState = await ...` assigns
\* its result
Return(i) ==
  /\ handlers[i].arg # << >>
  /\ handlers' = RemoveAt(handlers, i)
  /\ \E start \in {seenBy(handlers[i])} : \E name \in {handlers[i].systemName} :
       \E stale \in {handlers[i].arg[1] # gameState} :
       IF recoveryBlocked(start, name)
       THEN /\ gameState' = start
            /\ hist' = [requestHist(stepHist(hist, "recover", name, FALSE),
                                    start, start) EXCEPT !.stale = stale,
                                    !.kept = start = gameState]
            /\ UNCHANGED << config, lastDeteriorationCount >>
       ELSE \E action \in {IF health(start, name) <= 0 THEN "recover" ELSE "fix"} :
            \E rnd \in Rnds(IF action = "recover" THEN RecoveryRolls ELSE {10}) :
              /\ hist.events >= MaxEvents => rnd.event = "none"
              /\ \E st \in {handleNormalInteractionStages(name, start,
                                                          lastDeteriorationCount, rnd)} :
                   /\ eventPhase(st.chk1) \/ rnd.event = "none"
                   /\ gameState' = st.final
                   /\ lastDeteriorationCount' = trackedCount(st.adv, lastDeteriorationCount)
                   /\ hist' = [requestHist(turnHist(hist, action, name, st, rnd),
                                           start, st.final) EXCEPT !.stale = stale,
                                           !.kept = st.final = gameState]
                   /\ UNCHANGED config

NextAsync ==
  \/ \E name \in SysNames : Click(name)
  \/ \E i \in 1..Len(handlers) : Call(i)
  \/ \E i \in 1..Len(handlers) : Return(i)
  \/ \E name \in SysNames : SelectSystem(name)
  \/ ConfirmSystemSelection

SpecAsync == InitAsync /\ [][NextAsync]_vars

(* --------------------- the ledger functions on their own -------------- *)
MaxLedger == 3
MaxTurnsLeft == 2

DamageTypes == {"deterioration", "negative_events"}

\* the partial modifiers added: for one system, for every system, for every
\* category of one system, and for a system and category of their own
LedgerShapes ==
  { [systemName |-> "Power", type |-> "negative_events", modifier |-> 50],
    [systemName |-> "all", type |-> "negative_events", modifier |-> 50],
    [systemName |-> "Power", type |-> "all", modifier |-> 90],
    [systemName |-> "Life Support", type |-> "deterioration", modifier |-> 90] }

\* the targets and categories of the immunity followed through its ticks
ImmunityTargets == {"Power", "all"}
ImmunityTypes == {"deterioration", "all"}

LedgerEntries ==
  { [systemName |-> e.systemName, modifier |-> e.modifier, type |-> e.type,
     turnsLeft |-> k, source |-> "shields"] :
       e \in LedgerShapes, k \in 1..MaxTurnsLeft }

LedgerConfigs ==
  { [systems |-> {"Life Support", "Power"}, shields |-> "update",
     lifeSupport |-> "module", positiveEvents |-> {}, negativeEvents |-> {}] }

\* a new game state whose ledger is empty or holds one entry
InitLedger ==
  /\ config \in LedgerConfigs
  /\ \E initial \in [SysNames -> {100}] :
       \E ms \in {<< >>} \cup {<< e >> : e \in LedgerEntries} :
         gameState = [createGameState(initial) EXCEPT !.damageModifiers = ms]
  /\ lastDeteriorationCount = initialLastDeteriorationCount
  /\ hist = newHist(0)
  /\ handlers = << >>

\* addDamageModifier with a partial factor
AddModifier(e, turns) ==
  /\ Len(gameState.damageModifiers) < MaxLedger
  /\ gameState' = addDamageModifier(gameState, e.systemName, e.modifier, e.type,
                                    turns, "shields")
  /\ hist' = stepHist(hist, "add", "null", TRUE)
  /\ UNCHANGED << config, lastDeteriorationCount, handlers >>

\* addDamageModifier with factor 0, followed through its ticks: the only
\* entry of the ledger that can make a system immune
AddImmunity(target, type, turns) ==
  /\ Len(gameState.damageModifiers) < MaxLedger
  /\ hist.ticks >= hist.probeTurns
  /\ gameState' = addDamageModifier(gameState, target, 0, type, turns, "protection")
  /\ hist' = [stepHist(hist, "addImmunity", "null", TRUE) EXCEPT
                !.probeTurns = turns, !.probeTarget = target,
                !.probeType = type, !.ticks = 0]
  /\ UNCHANGED << config, lastDeteriorationCount, handlers >>

\* updateDamageModifiers
TickLedger ==
  /\ hist.ticks <= MaxTurnsLeft
  /\ gameState' = updateDamageModifiers(gameState)
  /\ hist' = [stepHist(hist, "tick", "null", TRUE) EXCEPT !.ticks = @ + 1]
  /\ UNCHANGED << config, lastDeteriorationCount, handlers >>

NextLedger ==
  \/ \E e \in LedgerShapes, turns \in 1..MaxTurnsLeft : AddModifier(e, turns)
  \/ \E target \in ImmunityTargets, type \in ImmunityTypes,
        turns \in 1..MaxTurnsLeft : AddImmunity(target, type, turns)
  \/ TickLedger

SpecLedger == InitLedger /\ [][NextLedger]_vars

(* ------------- sessions with a module that fails in the pass ----------- *)
\* the sessions followed: Life Support as the data-only module and, for
\* comparison, as the module with functions
FaultConfigs ==
  { [systems |-> {"Life Support", "Power"}, shields |-> "update",
     lifeSupport |-> "data", positiveEvents |-> {"supplyCache"},
     negativeEvents |-> {"meteorShower", "powerSurge"}],
    [systems |-> {"Life Support", "Navigation", "Comms"}, shields |-> "update",
     lifeSupport |-> "data", positiveEvents |-> {}, negativeEvents |-> {}],
    [systems |-> {"Life Support", "Power"}, shields |-> "update",
     lifeSupport |-> "module", positiveEvents |-> {}, negativeEvents |-> {}] }

InitFault ==
  /\ config \in FaultConfigs
  /\ \E initial \in [SysNames -> InitialHealths] : \E rnd \in Rnds({10}) :
       /\ rnd.event = "none"
       /\ \E created \in {createGameState(initial)} :
            gameState = deteriorateSystems(created, FALSE,
                                           initialLastDeteriorationCount, rnd)
  /\ lastDeteriorationCount = 0
  /\ hist = newHist(0)
  /\ handlers = << >>

\* names a request can carry: a system of the registry that is not in the
\* game, and a name no module has
UnknownNames == {"Shields", "Engines"}

\* updatedState.systems.find(...) of handleNormalInteraction finds nothing:
\* the Error is thrown inside the try
lookupFails(gs, systemName) == ~Has(gs, systemName)

\* a catch that returns the copy after the turn has been advanced
unknownOutcome_partial(gs) ==
  [state |-> [gs EXCEPT !.turn = @ + 1, !.deteriorationCount = @ + 1],
   escaped |-> FALSE]

\* the catch of handleNormalInteraction: the error is logged and the state
\* object given to the call is returned
unknownOutcome(gs) == [state |-> gs, escaped |-> FALSE]

\* handleNormalInteraction(name, gameState, config) with a name that no
\* system of the state has
RequestUnknown(name) ==
  /\ canGoOn
  /\ lookupFails(gameState, name)
  /\ \E out \in {unknownOutcome(gameState)} :
       /\ gameState' = out.state
       /\ hist' = [requestHist(stepHist(hist, "unknown", name, FALSE),
                               gameState, out.state) EXCEPT
                     !.same = (out.state = gameState),
                     !.escaped = out.escaped]
  /\ UNCHANGED << config, lastDeteriorationCount, handlers >>

NextFault ==
  \/ \E name \in SysNames : Fix(name)
  \/ \E name \in SysNames : ForceRecover(name)
  \/ Retry
  \/ \E name \in UnknownNames : RequestUnknown(name)

SpecFault == InitFault /\ [][NextFault]_vars

(* ------------- the motivated event in a game with Protection ---------- *)
\* sessions whose positive pool holds the motivated event, with Protection
\* among the systems
MotivatedConfigs ==
  { [systems |-> {"Power", "Shields", "Protection"}, shields |-> "update",
     lifeSupport |-> "module", positiveEvents |-> {"motivated"},
     negativeEvents |-> {}] }

InitMotivated ==
  /\ config \in MotivatedConfigs
  /\ \E initial \in [SysNames -> InitialHealths] : \E rnd \in Rnds({10}) :
       /\ rnd.event = "none"
       /\ \E created \in {createGameState(initial)} :
            gameState = deteriorateSystems(created, FALSE,
                                           initialLastDeteriorationCount, rnd)
  /\ lastDeteriorationCount = 0
  /\ hist = newHist(0)
  /\ handlers = << >>

NextMotivated ==
  \/ \E name \in SysNames : Fix(name)
  \/ ActivateProtection
  \/ \E name \in SysNames : SelectSystem(name)
  \/ ConfirmSystemSelection
  \/ CancelSystemSelection

SpecMotivated == InitMotivated /\ [][NextMotivated]_vars

(* ------------------ the options of the configuration ------------------- *)
\* Math.floor(Math.random() * 51) + 50: the ends and the values around the
\* range 70..75
CreateHealths == {50, 69, 70, 75, 76, 100}

\* a number option that is absent from the configuration
absent == -1

\* the configurations followed: initialHealthRange absent or {min: 70, max:
\* 75}, eventChance and positiveEventProbability absent, 0 or 1 (percent)
OptionConfigs ==
  { [systems |-> {"Power", "Shields", "Protection"}, shields |-> "update",
     lifeSupport |-> "module", positiveEvents |-> pos,
     negativeEvents |-> neg,
     initialHealthRange |-> range, eventChance |-> chance,
     positiveEventProbability |-> prob] :
       pos \in {{"supplyCache"}, {}},
       neg \in {{"meteorShower", "powerSurge"}, {}},
       range \in {<< >>, << 70, 75 >>}, chance \in {absent, 0, 100},
       prob \in {absent, 0, 100} }

\* typeof config.eventChance === "number" ? config.eventChance : 0.3
eventChanceOf(cfg) == IF cfg.eventChance = absent THEN 30 ELSE cfg.eventChance

positiveProbabilityOf(cfg) ==
  IF cfg.positiveEventProbability = absent THEN 50 ELSE cfg.positiveEventProbability

\* the draws of Math.random() in triggerEvent, in percent: the ends of
\* [0, 1) and the values around the defaults
ChanceRolls == {0, 29, 30, 99}
SideRolls == {0, 49, 50, 99}

\* a test that lets the draw equal to the bound pass
below_orEqual(roll, bound) == roll <= bound

\* Math.random() < bound
below(roll, bound) == roll < bound

\* a selection that takes the other pool when the drawn one is empty
selectEvent_fallback(cfg, chanceRoll, sideRoll, index) ==
  IF below(chanceRoll, eventChanceOf(cfg))
  THEN LET isPos == below(sideRoll, positiveProbabilityOf(cfg))
           side == IF isPos THEN "positive" ELSE "negative"
       IN  IF Len(positiveEvents) > 0 /\ (isPos \/ Len(negativeEvents) = 0)
           THEN [event |-> positiveEvents[(index % Len(positiveEvents)) + 1],
                 flag |-> "positive", pool |-> side]
           ELSE IF Len(negativeEvents) > 0
                THEN [event |-> negativeEvents[(index % Len(negativeEvents)) + 1],
                      flag |-> "negative", pool |-> side]
                ELSE [event |-> "none", flag |-> "none", pool |-> side]
  ELSE [event |-> "none", flag |-> "none", pool |-> "none"]

\* the selection of triggerEvent: the event, the flag written on it, and
\* the pool the second draw pointed at
selectEvent(cfg, chanceRoll, sideRoll, index) ==
  IF below(chanceRoll, eventChanceOf(cfg))
  THEN LET isPos == below(sideRoll, positiveProbabilityOf(cfg))
           side == IF isPos THEN "positive" ELSE "negative"
       IN  IF isPos /\ Len(positiveEvents) > 0
           THEN [event |-> positiveEvents[(index % Len(positiveEvents)) + 1],
                 flag |-> "positive", pool |-> side]
           ELSE IF ~isPos /\ Len(negativeEvents) > 0
                THEN [event |-> negativeEvents[(index % Len(negativeEvents)) + 1],
                      flag |-> "negative", pool |-> side]
                ELSE [event |-> "none", flag |-> "none", pool |-> side]
  ELSE [event |-> "none", flag |-> "none", pool |-> "none"]

\* initializeGame: createGameState, then the initial deteriorateSystems
InitOptions ==
  /\ config \in OptionConfigs
  /\ \E initial \in [SysNames -> CreateHealths] : \E rnd \in Rnds({10}) :
       /\ rnd.event = "none"
       /\ \E created \in {createGameState(initial)} :
            gameState = deteriorateSystems(created, FALSE,
                                           initialLastDeteriorationCount, rnd)
  /\ lastDeteriorationCount = 0
  /\ hist = newHist(0)
  /\ handlers = << >>

\* triggerEvent(gameState, config) called on the state of the game
TriggerEvent ==
  /\ hist.events < MaxEvents
  /\ \E chanceRoll \in ChanceRolls, sideRoll \in SideRolls, index \in 0..1 :
     \E sel \in {selectEvent(config, chanceRoll, sideRoll, index)} :
     \E rnd \in Rnds({10}) :
       /\ rnd.event = sel.event /\ rnd.nav = 0 /\ rnd.comms = 25
       /\ gameState' = triggerEvent(gameState, rnd)
       /\ hist' = [stepHist(hist, "draw", "null", TRUE) EXCEPT
                     !.event = sel.event, !.flag = sel.flag, !.events = @ + 1,
                     !.pool = sel.pool,
                     !.same = (triggerEvent(gameState, rnd) = gameState)]
  /\ UNCHANGED << config, lastDeteriorationCount, handlers >>

NextOptions == TriggerEvent

SpecOptions == InitOptions /\ [][NextOptions]_vars

(* ------------------------------ properties ---------------------------- *)
isTurn == hist.action \in {"fix", "recover"}
lifeSupportDead(gs) == Has(gs, "Life Support") /\ health(gs, "Life Support") <= 0

C2_CriticalFailureLoses ==
  (isTurn /\ hist.lsKilled) =>
     /\ gameState.gameOver /\ ~gameState.win
     /\ ~hist.eventPhase /\ hist.event = "none"

\* C3 (as stated): whenever win is set, no critical system is at 0 or below
\* and the systems have not all failed.
C3_WinMeansAlive ==
  gameState.win => ~lifeSupportDead(gameState) /\ ~allSystemsFailed(gameState)

\* C4 (as stated): once maxTurns fixes were made in a game in which the
\* critical system never failed, the game is over and won.
C4_FixesWin ==
  (hist.fixes >= gameState.maxTurns /\ ~lifeSupportDead(gameState)) =>
     gameState.gameOver /\ gameState.win

\* C4 (amended): in a game in which Navigation never cancelled a turn
\* advance and the critical system did not fail, the fix that brings the
\* turn counter to maxTurns (the fix number maxTurns - 1 at the latest)
\* ends the game as a win.
C4_FixesWinUnlessCancelled ==
  (/\ hist.fixes >= gameState.maxTurns - 1
   /\ ~hist.navCancelled
   /\ ~lifeSupportDead(gameState)) =>
     gameState.gameOver /\ gameState.win

\* C4 witness: a game won by its fix number maxTurns - 1 without any
\* cancelled turn advance.
C4_Witness ==
  /\ hist.action = "fix"
  /\ hist.fixes = gameState.maxTurns - 1
  /\ ~hist.navCancelled
  /\ gameState.gameOver /\ gameState.win

\* C5 (as stated): at the end of every turn pipeline, if Life Support is at
\* 0 or below then gameOver is set, whatever took the health away.
C5_DeadCriticalEndsGame ==
  (isTurn /\ lifeSupportDead(gameState)) => gameState.gameOver

\* the passes counted since the last accepted activation of Protection
sinceActivation == gameState.deteriorationCount - hist.protN
protected == isTurn /\ hist.ran /\ hist.protN >= 0

\* C6 (as stated): after Protection is activated at count N on an eligible
\* target, the target loses no health to its own deterioration or to a
\* negative event in the turns with count N+1 and N+2, and immunity no
\* longer holds back its deterioration in the pass with count N+3.
C6_ProtectionTiming ==
  protected =>
     /\ sinceActivation \in {1, 2} =>
          /\ hist.protTarget \notin hist.detLoss
          /\ hist.protTarget \notin hist.eventLoss
     /\ sinceActivation = 3 => hist.protTarget \notin hist.skipped

\* C7 (as stated): after an activation at count N, an activation attempt
\* made while the count is below N+8 changes nothing (no selection mode, same
\* protectionState, same ledger), and an attempt made at N+8 or later opens
\* the target selection.
C7_Cooldown ==
  (hist.protN >= 0 /\ canAct /\ ~gameState.systemSelectionMode) =>
     IF gameState.deteriorationCount < hist.protN + 8
     THEN protection_handleInteraction(gameState) = gameState
     ELSE protection_handleInteraction(gameState).systemSelectionMode

\* a negative event was resolved in the last turn
negativeResolved == isTurn /\ hist.event # "none" /\ isNegative(hist.event)

\* C8 (as stated): when a negative event is resolved, every system whose
\* negative_events factor is 0 has exactly the same health after the
\* resolution as before it.
C8_ImmuneUnchanged ==
  negativeResolved => \A n \in hist.immune : n \notin hist.eventDiff

\* C9 (as stated): whenever Shields is updated at health 50 or more in the
\* pass of a turn, every system's negative_events factor is below 1 in the
\* event phase of that turn.
C9_ShieldsCoverEventPhase ==
  (isTurn /\ hist.shieldsUpd /\ hist.eventPhase) => hist.below1

C11_RecoveryOutcome ==
  hist.action = "recover" =>
     /\ hist.ran
     /\ gameState.deteriorationCount = hist.countBefore + 1
     /\ health(gameState, hist.target)
          = IF hist.recovered THEN H(recoveryHealth) ELSE 0

\* a request of the player handled by the systems' click handler
isRequest == hist.action \in {"fix", "recover", "activate"}

\* C12 (as stated): a fix, force-recovery or activation request made while
\* gameOver is true leaves turn, deteriorationCount, every health, the
\* modifier ledger, gameOver and win as they were.
C12_GameOverRejects ==
  (isRequest /\ hist.overBefore) => ~hist.changedPlay /\ ~hist.changedResult

\* C13 (as stated): a fix or force-recovery request handled while
\* interactiveMode is true is rejected: turn, deteriorationCount, every
\* health and the ledger are left as they were.
C13_InteractiveRejects ==
  (isRequest /\ hist.modeBefore) => ~hist.changedPlay

\* C14 (as stated): when a request was called while the pipeline of
\* another was pending, either it is rejected (the state stays as the first
\* action left it) or its pipeline starts from the state the first action
\* left: no pipeline runs from a state that another pipeline has already
\* started from and replaced.
C14_Serialized ==
  (isRequest /\ hist.stale) => hist.kept

\* C15: a turn advances deteriorationCount once before its pass, evaluates
\* win/lose after the pass, enters the event step only when that evaluation
\* left gameOver false (otherwise no event is drawn and no health is changed
\* by the event step), and ends with the win/lose evaluation.
C15_PipelineOrder ==
  isTurn =>
     /\ gameState.deteriorationCount = hist.countBefore + 1
     /\ hist.ran => lastDeteriorationCount = gameState.deteriorationCount
     /\ hist.overAtCheck => hist.event = "none" /\ hist.eventDiff = {}
     /\ hist.event # "none" => ~hist.overAtCheck
     /\ checkWinLose(gameState) = gameState

\* C15 witness: a turn of a game with events in its pool, none resolved
\* yet, ended at the first evaluation of a game that was still open.
C15_Witness ==
  /\ isTurn /\ hist.ran /\ ~hist.overBefore /\ hist.overAtCheck
  /\ hist.events < MaxEvents /\ EventDraws # {"none"}
  /\ hist.event = "none" /\ gameState.gameOver

\* C16: the win/lose evaluator never takes gameOver from true to false: a
\* gameOver set in the deterioration pass of a turn is still set after the
\* first evaluation and at the end of the pipeline, and evaluating any
\* reachable state that is over leaves it over.
C16_GameOverSticky ==
  /\ (isTurn /\ hist.overInPass) => hist.overAtCheck /\ gameState.gameOver
  /\ gameState.gameOver => checkWinLose(gameState).gameOver

\* C16 witness: Life Support failed in the pass of a turn of an open game,
\* neither the lose rule nor the win rule applied, and the game is over.
C16_Witness ==
  /\ isTurn /\ hist.lsKilled /\ hist.overInPass /\ ~hist.overBefore
  /\ ~allSystemsFailed(gameState) /\ ~rescueArrived(gameState)
  /\ gameState.gameOver

\* the entries of the ledger a query for (system, category) is about
matching(ms, systemName, damageType) ==
  { i \in 1..Len(ms) :
      /\ ms[i].systemName \in {systemName, "all"}
      /\ ms[i].type \in {damageType, "all"} }

RECURSIVE ProductOver(_, _)
ProductOver(ms, I) ==
  IF I = {} THEN [num |-> 1, den |-> 1]
  ELSE LET i == CHOOSE j \in I : TRUE
           r == ProductOver(ms, I \ {i})
       IN  [num |-> r.num * ms[i].modifier, den |-> r.den * 100]

\* two factors in percent over the same number of entries
sameFactor(f, g) == f.num = g.num /\ f.den = g.den

\* C17: for every system and category the effective factor is the product
\* of the factors of exactly the entries whose target is the system or the
\* global target and whose category is the category or the global one, and
\* it is 1 when no entry matches.
C17_ProductOfMatching ==
  \A systemName \in SysNames, damageType \in DamageTypes :
    LET ms == gameState.damageModifiers
        I == matching(ms, systemName, damageType)
        f == getDamageModifier(systemName, damageType, gameState)
    IN  /\ sameFactor(f, ProductOver(ms, I))
        /\ I = {} => f = [num |-> 1, den |-> 1]

\* C17 witness: two entries of factor 0.5, one for Power and one global,
\* both for negative events, give Power the factor 0.25.
C17_Witness ==
  LET ms == gameState.damageModifiers
      f == getDamageModifier("Power", "negative_events", gameState)
  IN  /\ hist.action = "add" /\ Len(ms) = 2
      /\ ms[1].modifier = 50 /\ ms[2].modifier = 50
      /\ ms[1].systemName = "all" /\ ms[2].systemName = "Power"
      /\ matching(ms, "Power", "negative_events") = {1, 2}
      /\ f.num * 4 = f.den

\* the queries the followed immunity entry is about
immunityQueries ==
  { q \in SysNames \X DamageTypes :
      /\ hist.probeTarget \in {q[1], "all"}
      /\ hist.probeType \in {q[2], "all"} }

\* C18: an entry added with turns = k makes its queries immune after each
\* of the first k-1 ticks and has no effect on them from the k-th tick on.
C18_ExpiresAtKthTick ==
  hist.probeTurns > 0 =>
    \A q \in immunityQueries :
      isSystemImmune(q[1], q[2], gameState) <=> hist.ticks < hist.probeTurns

\* C18 witness: an entry added with turns = 2 is in effect after one tick.
C18_Witness ==
  /\ hist.action = "tick" /\ hist.probeTurns = 2 /\ hist.ticks = 1
  /\ immunityQueries # {}
  /\ \A q \in immunityQueries : isSystemImmune(q[1], q[2], gameState)

\* the last handler consumed a turn
turnConsumed == isTurn /\ hist.accepted

\* C19 (as stated): within a game, deteriorationCount goes up by exactly 1
\* with every action that consumes a turn and is left alone by every other
\* handler, whatever Comms and Navigation do to the turn counter; it never
\* goes down.
C19_CountAdvancesByOne ==
  hist.action \notin {"init", "retry"} =>
     gameState.deteriorationCount
       = hist.countWas + (IF turnConsumed THEN 1 ELSE 0)

C21_ErrorRollsBack ==
  (isRequest /\ hist.threw) => ~hist.changedPlay /\ ~hist.changedResult

\* C22: cancelling a pending system selection leaves turn,
\* deteriorationCount, every system's health, the modifier ledger and
\* protectionState exactly as they were when the selection was opened, and
\* ends the selection and the interactive mode.
C22_CancelKeepsFrame ==
  hist.action = "cancel" =>
     /\ hist.entered = << frameOf(gameState) >>
     /\ ~gameState.systemSelectionMode /\ ~gameState.interactiveMode
     /\ gameState.selectedSystems = << >>

\* C22 witness: a selection opened by Protection in a running game (passes
\* made, a system below full health) was cancelled.
C22_Witness ==
  /\ hist.action = "cancel" /\ hist.entered # << >>
  /\ gameState.deteriorationCount > 0
  /\ \E n \in DOMAIN gameState.systems : health(gameState, n) < H(100)
  /\ ~gameState.systemSelectionMode

\* C23: from the turn in which the motivated event is triggered until the
\* player confirms, turn, deteriorationCount, every health, the ledger and
\* protectionState stay as they were when the event was triggered; the
\* confirmation repairs exactly the chosen systems, leaves the rest of that
\* state alone and ends the interactive mode; confirming again outside a
\* selection changes nothing.
C23_DeferredApply ==
  /\ (gameState.systemSelectionMode /\ gameState.selectionOwner = "motivated") =>
        /\ gameState.interactiveMode
        /\ hist.entered = << frameOf(gameState) >>
  /\ (hist.action = "confirm" /\ hist.target = "motivated") =>
        /\ ~gameState.interactiveMode /\ ~gameState.systemSelectionMode
        /\ hist.entered # << >>
        /\ frameOf(gameState) =
             [hist.entered[1] EXCEPT !.health =
                [n \in DOMAIN @ |-> IF n \in hist.chosen THEN H(100) ELSE @[n]]]
  /\ ~gameState.systemSelectionMode => confirmSystemSelection(gameState) = gameState

\* C23 witness: two damaged systems were chosen and the confirmation
\* repaired both.
C23_Witness ==
  /\ hist.action = "confirm" /\ hist.target = "motivated"
  /\ Cardinality(hist.chosen) = 2
  /\ \A n \in hist.chosen :
        hist.entered[1].health[n] < H(100) /\ health(gameState, n) = H(100)

\* C24: with eventChance = 0 no event is triggered; with eventChance = 1,
\* positiveEventProbability = 1 and a non-empty positive pool the triggered
\* event is a member of the positive pool and is flagged positive; with
\* eventChance = 1, positiveEventProbability = 0 and a non-empty negative
\* pool it is a member of the negative pool and is flagged negative.
C24_DrawFollowsConfig ==
  hist.action = "draw" =>
     /\ config.eventChance = 0 => hist.event = "none"
     /\ (/\ config.eventChance = 100 /\ config.positiveEventProbability = 100
         /\ positiveEvents # << >>) =>
           isPositive(hist.event) /\ hist.flag = "positive"
     /\ (/\ config.eventChance = 100 /\ config.positiveEventProbability = 0
         /\ negativeEvents # << >>) =>
           isNegative(hist.event) /\ hist.flag = "negative"

\* C24 witness: with both options at 1 the supply cache was triggered and
\* repaired a system that was below full health.
C24_Witness ==
  /\ hist.action = "draw"
  /\ config.eventChance = 100 /\ config.positiveEventProbability = 100
  /\ hist.event = "supplyCache" /\ hist.flag = "positive"
  /\ health(gameState, SysSeq[1]) = H(100)

\* the bounds of the initial health of a normal system under the
\* configuration: initialHealthRange, or 50..100 when it is absent
rangeMin(cfg) == IF cfg.initialHealthRange = << >> THEN 50 ELSE cfg.initialHealthRange[1]
rangeMax(cfg) == IF cfg.initialHealthRange = << >> THEN 100 ELSE cfg.initialHealthRange[2]

\* C25 (as stated): at game creation every normal system's health lies
\* within the configured initialHealthRange (50..100 when none is
\* configured) and every active system starts at 100.
C25_InitialHealthInRange ==
  hist.action = "init" =>
    \A n \in SysNames :
      IF sysType(n) = "normal"
      THEN /\ health(gameState, n) >= H(rangeMin(config))
           /\ health(gameState, n) <= H(rangeMax(config))
      ELSE health(gameState, n) = H(100)

\* C26 (as stated): after Protection is activated at count N, the target's
\* own deterioration is skipped in the passes with count N+1, N+2 and N+3
\* and in no later pass, the target is fully immune to negative events in
\* the event phases of those three turns and of no later turn, and after the
\* third turn Protection is no longer protecting.
C26_ThreeTurns ==
  protected =>
     /\ sinceActivation \in 1..3 =>
          /\ hist.protTarget \notin hist.detLoss
          /\ hist.eventPhase => hist.protTarget \in hist.immune
     /\ sinceActivation > 3 =>
          /\ hist.protTarget \notin hist.skipped
          /\ hist.protTarget \notin hist.immune
     /\ sinceActivation >= 3 => ~gameState.protectionState.isProtecting

C28_LastFixedExemption ==
  (hist.action = "fix" /\ hist.ran) =>
     /\ hist.exempt = {hist.target}
     /\ hist.target \notin hist.detLoss

\* C29 (as stated): in a game started by the retry button every
\* turn-consuming action performs a deterioration pass, as in a first game.
C29_RetryStartsFresh ==
  (isTurn /\ hist.retries > 0 /\ ~hist.threw) => hist.ran

\* C30: in a deterioration pass the deterioration of a system is decided
\* in the state its own update has produced: a living system loses health in
\* its own step exactly when, after its update, it is neither exempted by the
\* last-fixed rule nor immune to deterioration.
C30_UpdateBeforeLookup ==
  (isTurn /\ hist.ran /\ ~hist.threw) =>
     \A n \in hist.alive :
        hasDeteriorate(n) =>
          (n \in hist.detLoss <=> (n \notin hist.skipped /\ n \notin hist.exempt))

\* C30 witness: Shields, the target of Protection, removed its own ledger
\* entries in its update and was deteriorated in the same step.
C30_Witness ==
  /\ isTurn /\ hist.ran /\ config.shields = "update"
  /\ hist.protTarget = "Shields" /\ sinceActivation = 1
  /\ "Shields" \in hist.alive /\ "Shields" \notin hist.exempt
  /\ "Shields" \in hist.detLoss

\* C31: after a handler has returned, one more non-forced deteriorateSystems
\* call on the state it left (same deteriorationCount) returns that state: no
\* health, no protectionState and no modifier's remaining turns change.
C31_SecondCallNoChange ==
  \A rnd \in Rnds({10}) :
     deteriorateSystems(gameState, FALSE, lastDeteriorationCount, rnd) = gameState

\* C31 witness: the pass of the last turn has run, the ledger holds an entry
\* and a system is alive, and one more call leaves all of it as it is.
C31_Witness ==
  /\ isTurn /\ hist.ran /\ ~gameState.gameOver
  /\ gameState.damageModifiers # << >>
  /\ \E n \in SysNames : hasDeteriorate(n) /\ health(gameState, n) > 0
  /\ gameState.deteriorationCount = lastDeteriorationCount
  /\ C31_SecondCallNoChange

\* C32 (as stated): a system whose deterioration factor is 0 at its own
\* step of a deterioration pass has, at the end of that pass, no less health
\* than at its beginning.
C32_ImmuneKeepsHealth ==
  (isTurn /\ hist.ran) => \A n \in hist.skipped : n \notin hist.passLoss

\* C33 (as stated): the update of Shields in a deterioration pass leaves in
\* the ledger every entry that Shields did not add itself, the entries of
\* Protection for the target Shields among them.
C33_ShieldsKeepsOthers ==
  (isTurn /\ hist.ran) => hist.othersKept

\* C34: in a pass in which Comms has health above 0 when Navigation's step
\* is reached, Navigation does not take the turn advance back, and the turn
\* after the action is at least one higher than before it.
C34_CommsNegatesCancel ==
  (isTurn /\ hist.commsAtNav) =>
     /\ ~hist.navBack
     /\ gameState.turn >= hist.turnBefore + 1

\* C34 witness: with Comms alive, Navigation fell to 50 or less in its step
\* (where it would draw for the cancellation) and the turn went on.
C34_Witness ==
  /\ isTurn /\ hist.commsAtNav /\ "Navigation" \in hist.detLoss
  /\ health(gameState, "Navigation") <= H(50)
  /\ gameState.turn >= hist.turnBefore + 1

\* C35 (as stated): in the state the player first acts on, every normal
\* system with a deterioration has less health than createGameState gave it:
\* the initial pass has deteriorated it.
C35_InitialPass ==
  hist.action = "init" =>
     \A n \in SysNames :
        (typeOrNormal(n) = "normal" /\ hasDeteriorate(n)) => n \in hist.passLoss

\* C36 (as stated): whenever interactiveMode is true the player has a way
\* out of it: the Cancel button is shown, or the Confirm button is enabled,
\* or some system can be selected (which enables Confirm).
C36_CanLeaveInteractive ==
  gameState.interactiveMode =>
     \/ gameState.systemSelectionMode /\ showCancelButton(gameState.selectionOwner)
     \/ gameState.systemSelectionMode /\ confirmEnabled(gameState)
     \/ gameState.systemSelectionMode /\ \E n \in SysNames : selectable(gameState, n)

\* C37: when the draw points at the positive pool and it is empty, or at the
\* negative pool and it is empty, no event is selected (none of the other
\* pool either) and the event step returns the state unchanged.
C37_NoFallback ==
  (/\ hist.action = "draw"
   /\ \/ hist.pool = "positive" /\ positiveEvents = << >>
      \/ hist.pool = "negative" /\ negativeEvents = << >>) =>
     hist.event = "none" /\ hist.flag = "none" /\ hist.same

\* C37 witness: the draw pointed at the empty positive pool while the
\* negative pool held events and a system could have been damaged; nothing
\* happened.
C37_Witness ==
  /\ hist.action = "draw" /\ hist.pool = "positive"
  /\ positiveEvents = << >> /\ negativeEvents # << >>
  /\ hist.event = "none" /\ hist.same
  /\ \E n \in SysNames : health(gameState, n) > 0

C39_TurnNeverDecreases == [][gameState'.turn >= gameState.turn]_vars

\* C39 with handlers that run one after the other: the turn counter is at
\* least 1 in every state, and over one turn-consuming action (a fix or a
\* force recovery) it changes by 0, +1 or +2.
C39_TurnMonotone ==
  /\ gameState.turn >= 1
  /\ isTurn => gameState.turn - hist.turnBefore \in {0, 1, 2}

\* C39, sequential play: Navigation took the advance back and the turn stayed, in a
\* game that had already advanced.
C39_Witness ==
  /\ isTurn /\ hist.navBack
  /\ gameState.turn = hist.turnBefore /\ gameState.turn > 1

\* C39, sequential play: Comms granted an extra turn and the turn rose by two.
C39_WitnessExtra ==
  isTurn /\ gameState.turn = hist.turnBefore + 2

====
